---- MODULE Spec2Model ----
\* Keyed MySQL connection pool of src/db/MySQL_db_connection.py:
\* the registry _pools, the bounded idle queues, and the MySQLConn guard
\* (__init__, __enter__, __exit__) stepped at the granularity of its
\* queue operations and its calls into the database client.
EXTENDS Integers, Sequences, FiniteSets, TLC

\* ---------------------------------------------------------------- bounds
NumGuards == 2
MaxLeases == 2
MaxPoolSize == 2
MaxRetries == 3
MaxRows == 3
MaxLimit == 2

Guards == 1..NumGuards
ConnIds == 1..MaxLeases
None == 0

\* ------------------------------------------------- environment / targets
Host == "h"
User == "u"
DBs == {"a", "b"}
Pwds == {"p", "q"}

VARIABLES
  poolSize,    \* _POOL_SIZE
  poolPing,    \* _POOL_PING
  pools,       \* _pools: key -> idle queue (sequence of connection ids)
  created,     \* number of connections the factory has opened (ids 1..created)
  status,      \* connection -> "unborn" | "open" | "closedDead" | "closedFull"
               \*   (closed after a probe raised / because the queue was full)
  txn,         \* connection -> "none" | "active"
  ckey,        \* connection -> key it was opened for
  reachable,   \* whether pymysql.connect currently succeeds
  pc,          \* guard -> "new" | "unacquired" | "create" | "block" | "rollback"
               \*   | "rping" | "put" | "clear" | "released" | "enterFailed"
  gkey,        \* guard -> key of self._pool
  gconn,       \* guard -> self.conn
  via,         \* guard -> how the dequeue of this __enter__ went
  exc,         \* guard -> exception raised by the caller's block
  seen,        \* guard -> what the caller of the with statement observes
  leases,      \* number of guards constructed so far
  overlapped,  \* some __enter__ began while another guard was in enter/block/exit
  reentered,   \* guard -> __enter__ was called on it again after its first call
  lock,        \* _pools_lock: the thread holding it, or None
  rpc,         \* thread -> position around _get_pool: "idle" | "lock" | "check"
               \*   | "create" | "ret" | "enter" | "block" | "exit"
  rkey,        \* thread -> key of its _get_pool call
  reg,         \* _pools seen as key -> identity of its Queue object (None if absent)
  qcount,      \* number of Queue objects constructed
  handed,      \* key -> identities of the queues _get_pool has returned for it
  rdb,         \* thread -> self.db of its guard
  rpwd,        \* thread -> self.password of its guard
  rpool,       \* thread -> identity of self._pool (None before line 46)
  rconn,       \* thread -> self.conn, a connection named by what it was opened with
  rqueues,     \* identity of a Queue object -> its idle connections
  fpc,         \* fetch_json: "idle" | "loop" | "get" | "test" | "done"
  fmax,        \* fetch_json: max_retries
  fattempt,    \* fetch_json: attempt
  fbackoff,    \* fetch_json: backoff
  fdata,       \* fetch_json: data
  fgets,       \* number of session.get calls made
  fresps,      \* the response bodies received, in order
  fsleeps,     \* the arguments of the time.sleep calls made, in order
  fout,        \* how the call ended: "none" | "return" | "RuntimeError" | "error"
  fret,        \* the value returned
  bpc,         \* trans_en_to_zh.main: "idle" | "loop" | "update" | "done"
  bkind,       \* the loop that runs: "name" | "description"
  blimit,      \* args.limit
  bstart,      \* args.offset
  binit,       \* the stock_ids that were candidates when they were counted
  bcand,       \* the stock_ids that are candidates now
  bcount,      \* name_cnt / desc_cnt
  bprocessed,  \* processed
  boffset,     \* offset
  brows,       \* the stock_ids of rows
  bupdated,    \* the stock_ids an UPDATE was committed for
  bstuck       \* some updated row stayed a candidate

\* the state of the registry stepped under its lock
regvars == <<lock, rpc, rkey, reg, qcount, handed, rdb, rpwd, rpool, rconn, rqueues>>

\* the state of one call of fetch_json
fetchvars == <<fpc, fmax, fattempt, fbackoff, fdata, fgets, fresps, fsleeps, fout, fret>>

\* the state of the jobs that run beside the pool
jobvars == <<fetchvars, bpc, bkind, blimit, bstart, binit, bcand, bcount,
            bprocessed, boffset, brows, bupdated, bstuck>>

vars == <<poolSize, poolPing, pools, created, status, txn, ckey, reachable,
          pc, gkey, gconn, via, exc, seen, leases, overlapped, reentered, regvars,
          jobvars>>

\* --------------------------------------------------------------- helpers
_make_key(host, user, db) == <<host, user, db>>

Keys == {_make_key(Host, User, d) : d \in DBs}

\* variant: the password is part of the key
KeyOf_pwd(host, user, pwd, db) == <<host, user, db, pwd>>

\* line 46: __init__ resolves its queue from host, user and db; the
\* password is not passed on
KeyOf(host, user, pwd, db) == _make_key(host, user, db)

\* the keys __init__ can ask for
RegKeys == {KeyOf(Host, User, p, d) : p \in Pwds, d \in DBs}

\* a parsed JSON value, as far as fetch_json looks at it: whether it is a
\* dict, and the keys (of a dict) or items (of a list) it has
Value(isdict, items) == [isdict |-> isdict, items |-> items]

\* {}
EmptyDict == Value(TRUE, {})

\* the response bodies of the server: a rate-limit notice under "Note" or
\* under "Information", a payload dict, a JSON list that has the string
\* "Note" among its items, and a body that is not JSON
Bodies == {"note", "info", "payload", "list", "garbage"}

\* lines 96-99, r.json() with every error replaced by {}
Json(body) ==
  CASE body = "note" -> Value(TRUE, {"Note"})
    [] body = "info" -> Value(TRUE, {"Information"})
    [] body = "payload" -> Value(TRUE, {"symbol", "quarterlyEarnings"})
    [] body = "list" -> Value(FALSE, {"Note"})
    [] OTHER -> EmptyDict

\* variant: only "Note" marks a rate-limit notice
RateLimited_note(data) == data.isdict /\ "Note" \in data.items

\* line 100
RateLimited(data) ==
  data.isdict /\ ("Note" \in data.items \/ "Information" \in data.items)

\* variant: line 101 never finds the last attempt
IsLast_never(attempt, max_retries) == FALSE

\* line 101
IsLast(attempt, max_retries) == attempt = max_retries

\* a connection as opened by _create_connection(host, user, pwd, db)
Opened(host, user, pwd, db) == [host |-> host, user |-> user, pwd |-> pwd, db |-> db]

\* self.conn = None
NoConn == [host |-> "", user |-> "", pwd |-> "", db |-> ""]

Created == 1..created

SeqElems(q) == {q[i] : i \in 1..Len(q)}

Enqueued(c) == \E k \in DOMAIN pools : c \in SeqElems(pools[k])

\* variant: full only above capacity
QueueFull_late(q, maxsize) == maxsize > 0 /\ Len(q) > maxsize

\* variant: full one below capacity
QueueFull_early(q, maxsize) == maxsize > 0 /\ Len(q) + 1 >= maxsize

\* queue.Queue.full(): a maxsize <= 0 means unbounded
QueueFull(q, maxsize) == maxsize > 0 /\ Len(q) >= maxsize

\* queue.Queue.get: FIFO
QueueHead(q) == Head(q)

\* variant: get returns the head without removing it
QueueRest_keep(q) == q

QueueRest(q) == Tail(q)

\* variant: the connection is enqueued twice
QueuePut_twice(q, c) == Append(Append(q, c), c)

\* variant: the connection is put at the front of the queue
QueuePut_front(q, c) == <<c>> \o q

\* queue.Queue.put_nowait when not full
QueuePut(q, c) == Append(q, c)

Running(g) == pc[g] \notin {"new", "unacquired", "released", "enterFailed"}

\* pymysql Connection.ping: "ok" on a live session; on a broken one it
\* raises, unless reconnect is set and the server can be reached, in which
\* case the session is reopened (and whatever transaction it had is gone)
PingOutcomes(reconnect) ==
  {"ok"} \cup (IF reconnect /\ reachable THEN {"reconnected"} ELSE {"raise"})

\* variant: the close at lines 89-92 is not guarded
ExitHandler_leaky(site) ==
  CASE site = "rollback"  -> "probe"
    [] site = "ping"      -> "closeDead"
    [] site = "put"       -> "closeFull"
    [] site = "closeFull" -> "clear"
    [] site = "closeDead" -> "raise"

\* where control goes when the call at a site of __exit__ raises
ExitHandler(site) ==
  CASE site = "rollback"  -> "probe"
    [] site = "ping"      -> "closeDead"
    [] site = "put"       -> "closeFull"
    [] site = "closeFull" -> "clear"
    [] site = "closeDead" -> "clear"

\* __exit__ has no return statement: it returns None, which does not suppress
ExitReturnValue == FALSE

\* variant: lines 79-80 missing
AfterRollback_skip == "put"

\* lines 78-81: what follows the rollback of lines 73-77
AfterRollback == IF poolPing THEN "rping" ELSE "put"

\* ------------------------------------------------------------------ Init
Init ==
  /\ poolSize \in 1..MaxPoolSize
  /\ poolPing \in BOOLEAN
  /\ pools = <<>>
  /\ created = 0
  /\ status = [c \in ConnIds |-> "unborn"]
  /\ txn = [c \in ConnIds |-> "none"]
  /\ ckey = [c \in ConnIds |-> _make_key(Host, User, "a")]
  /\ reachable = TRUE
  /\ pc = [g \in Guards |-> "new"]
  /\ gkey = [g \in Guards |-> _make_key(Host, User, "a")]
  /\ gconn = [g \in Guards |-> None]
  /\ via = [g \in Guards |-> "none"]
  /\ exc = [g \in Guards |-> "none"]
  /\ seen = [g \in Guards |-> "none"]
  /\ leases = 0
  /\ overlapped = FALSE
  /\ reentered = [g \in Guards |-> FALSE]
  /\ lock = None
  /\ rpc = [t \in Guards |-> "idle"]
  /\ rkey = [t \in Guards |-> KeyOf(Host, User, "p", "a")]
  /\ reg = [k \in RegKeys |-> None]
  /\ qcount = 0
  /\ handed = [k \in RegKeys |-> {}]
  /\ rdb = [t \in Guards |-> "a"]
  /\ rpwd = [t \in Guards |-> "p"]
  /\ rpool = [t \in Guards |-> None]
  /\ rconn = [t \in Guards |-> NoConn]
  /\ rqueues = [q \in 1..MaxLeases |-> <<>>]
  /\ fpc = "idle"
  /\ fmax = 0
  /\ fattempt = 0
  /\ fbackoff = 0
  /\ fdata = EmptyDict
  /\ fgets = 0
  /\ fresps = <<>>
  /\ fsleeps = <<>>
  /\ fout = "none"
  /\ fret = EmptyDict
  /\ bpc = "idle"
  /\ bkind = "name"
  /\ blimit = 1
  /\ bstart = 0
  /\ binit = {}
  /\ bcand = {}
  /\ bcount = 0
  /\ bprocessed = 0
  /\ boffset = 0
  /\ brows = {}
  /\ bupdated = {}
  /\ bstuck = FALSE

\* ------------------------------------------------------------- _get_pool
_get_pool(key) ==
  IF key \in DOMAIN pools THEN pools ELSE pools @@ (key :> <<>>)

\* ---------------------------------------------------- MySQLConn.__init__
Construct(g, db) ==
  /\ pc[g] \in {"new", "released", "enterFailed"}
  /\ leases < MaxLeases
  /\ pools' = _get_pool(_make_key(Host, User, db))
  /\ gkey' = [gkey EXCEPT ![g] = _make_key(Host, User, db)]
  /\ gconn' = [gconn EXCEPT ![g] = None]
  /\ via' = [via EXCEPT ![g] = "none"]
  /\ exc' = [exc EXCEPT ![g] = "none"]
  /\ seen' = [seen EXCEPT ![g] = "none"]
  /\ pc' = [pc EXCEPT ![g] = "unacquired"]
  /\ leases' = leases + 1
  /\ reentered' = [reentered EXCEPT ![g] = FALSE]
  /\ UNCHANGED <<poolSize, poolPing, created, status, txn, ckey, reachable, overlapped>>
  /\ UNCHANGED <<regvars, jobvars>>

\* --------------------------------------------------- MySQLConn.__enter__
\* variant: line 60 missing
AfterBadPing_kept(c) == c

\* line 60: the local conn after a probe that raised
AfterBadPing(c) == None

\* variant: Empty is not caught
OnEmpty_fatal == "enterFailed"

\* lines 61-62: where control goes when the dequeue wait times out
\* (except Empty: conn = None, then the factory at lines 64-65)
OnEmpty == "create"

\* lines 51-60 and 64-68 when an idle connection is available: it is
\* dequeued and, if _POOL_PING, probed with conn.ping(reconnect=True);
\* a connection whose probe raises is closed (close errors swallowed) and
\* the local reference dropped, otherwise it becomes self.conn
EnterGetHit(g) ==
  /\ pc[g] = "unacquired"
  /\ pools[gkey[g]] # <<>>
  /\ LET c == QueueHead(pools[gkey[g]]) IN
       /\ pools' = [pools EXCEPT ![gkey[g]] = QueueRest(@)]
       /\ \E r \in (IF poolPing THEN PingOutcomes(TRUE) ELSE {"ok"}) :
            LET conn == IF r = "raise" THEN AfterBadPing(c) ELSE c IN
              /\ status' = [status EXCEPT ![c] = IF r = "raise" THEN "closedDead" ELSE @]
              /\ txn' = [txn EXCEPT ![c] = IF r = "ok" THEN @ ELSE "none"]
              /\ via' = [via EXCEPT ![g] = IF r = "raise" THEN "badping" ELSE "hit"]
              /\ IF conn = None
                   THEN /\ pc' = [pc EXCEPT ![g] = "create"]
                        /\ UNCHANGED gconn
                   ELSE /\ pc' = [pc EXCEPT ![g] = "block"]
                        /\ gconn' = [gconn EXCEPT ![g] = conn]
  /\ overlapped' = (overlapped \/ \E h \in Guards \ {g} : Running(h))
  /\ UNCHANGED <<poolSize, poolPing, created, ckey, reachable,
                 gkey, exc, seen, leases>>
  /\ UNCHANGED <<reentered, regvars, jobvars>>

\* line 51 and 61-62, the wait times out on an empty queue
EnterGetEmpty(g) ==
  /\ pc[g] = "unacquired"
  /\ pools[gkey[g]] = <<>>
  /\ via' = [via EXCEPT ![g] = "timeout"]
  /\ pc' = [pc EXCEPT ![g] = OnEmpty]
  /\ overlapped' = (overlapped \/ \E h \in Guards \ {g} : Running(h))
  /\ UNCHANGED <<poolSize, poolPing, pools, created, status, txn, ckey, reachable,
                 gkey, gconn, exc, seen, leases>>
  /\ UNCHANGED <<reentered, regvars, jobvars>>

\* variant: the factory's error is swallowed
OnCreateError_swallowed == "block"

\* line 65: the factory's error is not caught in __enter__, so the with
\* statement fails before the block and before any __exit__
OnCreateError == "enterFailed"

\* the open connections of key k
OpenOf(k) == {c \in Created : status[c] = "open" /\ ckey[c] = k}

\* variant: no connection is created once _POOL_SIZE are open for the key
Admit_capped(k) == Cardinality(OpenOf(k)) < poolSize

\* lines 64-65: the factory is called whenever conn is None; the number of
\* open connections is not consulted
Admit(k) == TRUE

\* lines 64-68 with _create_connection (lines 20-29); the error of a call
\* made from inside the guard's own block (self.conn still set) is raised
\* into that block
EnterCreate(g) ==
  /\ pc[g] = "create"
  /\ IF reachable /\ Admit(gkey[g])
       THEN /\ created' = created + 1
            /\ status' = [status EXCEPT ![created + 1] = "open"]
            /\ txn' = [txn EXCEPT ![created + 1] = "none"]
            /\ ckey' = [ckey EXCEPT ![created + 1] = gkey[g]]
            /\ gconn' = [gconn EXCEPT ![g] = created + 1]
            /\ pc' = [pc EXCEPT ![g] = "block"]
            /\ UNCHANGED seen
       ELSE /\ pc' = [pc EXCEPT ![g] = IF gconn[g] = None THEN OnCreateError
                                       ELSE "block"]
            /\ seen' = [seen EXCEPT ![g] = IF gconn[g] = None THEN "connect" ELSE @]
            /\ UNCHANGED <<created, status, txn, ckey, gconn>>
  /\ UNCHANGED <<poolSize, poolPing, pools, reachable,
                 gkey, via, exc, leases, overlapped>>
  /\ UNCHANGED <<reentered, regvars, jobvars>>

\* ------------------------------------------------- the caller's with block
\* a statement on the leased connection (autocommit=False opens a transaction)
Execute(g) ==
  /\ pc[g] = "block"
  /\ txn[gconn[g]] = "none"
  /\ txn' = [txn EXCEPT ![gconn[g]] = "active"]
  /\ UNCHANGED <<poolSize, poolPing, pools, created, status, ckey, reachable,
                 pc, gkey, gconn, via, exc, seen, leases, overlapped>>
  /\ UNCHANGED <<reentered, regvars, jobvars>>

\* conn.commit()
Commit(g) ==
  /\ pc[g] = "block"
  /\ txn[gconn[g]] = "active"
  /\ txn' = [txn EXCEPT ![gconn[g]] = "none"]
  /\ UNCHANGED <<poolSize, poolPing, pools, created, status, ckey, reachable,
                 pc, gkey, gconn, via, exc, seen, leases, overlapped>>
  /\ UNCHANGED <<reentered, regvars, jobvars>>

\* ---------------------------------------------------- MySQLConn.__exit__
\* variant: line 71 missing
ExitEntry_untested(g, e) ==
  IF e # "none" THEN "rollback"
  ELSE IF poolPing THEN "rping" ELSE "put"

\* variant: line 73 does not test exc_type
ExitEntry_always(g, e) ==
  IF gconn[g] = None THEN "released" ELSE "rollback"

\* lines 70-73 and 78-79: the position __exit__ starts at
ExitEntry(g, e) ==
  IF gconn[g] = None THEN "released"
  ELSE IF e # "none" THEN "rollback"
  ELSE IF poolPing THEN "rping" ELSE "put"

\* the block ends (normally or by raising) and the with statement calls __exit__
BlockEnd(g, e) ==
  /\ pc[g] = "block"
  /\ exc' = [exc EXCEPT ![g] = e]
  /\ via' = [via EXCEPT ![g] = "none"]
  /\ pc' = [pc EXCEPT ![g] = ExitEntry(g, e)]
  /\ UNCHANGED <<poolSize, poolPing, pools, created, status, txn, ckey, reachable,
                 gkey, gconn, seen, leases, overlapped>>
  /\ UNCHANGED <<reentered, regvars, jobvars>>

\* __exit__ called by hand on a guard whose __enter__ raised (the with
\* statement itself does not call it then): line 71 finds self.conn None
ExitUnentered(g, e) ==
  /\ pc[g] = "enterFailed"
  /\ pc' = [pc EXCEPT ![g] = ExitEntry(g, e)]
  /\ UNCHANGED <<poolSize, poolPing, pools, created, status, txn, ckey, reachable,
                 gkey, gconn, via, exc, seen, leases, overlapped>>
  /\ UNCHANGED <<reentered, regvars, jobvars>>

\* what the with statement propagates once __exit__ is over; esc says
\* that an exception escaped from __exit__ itself
Propagated(g, esc) ==
  IF esc THEN "cleanup"
  ELSE IF exc[g] # "none" /\ ~ExitReturnValue THEN exc[g]
  ELSE "none"

\* lines 93-94, finally: self.conn = None, then __exit__ is over
Finally(g, esc) ==
  /\ gconn' = [gconn EXCEPT ![g] = None]
  /\ seen' = [seen EXCEPT ![g] = Propagated(g, esc)]
  /\ exc' = [exc EXCEPT ![g] = "none"]
  /\ pc' = [pc EXCEPT ![g] = "released"]

\* lines 84-87 (site "closeFull") and 88-92 (site "closeDead"):
\* self.conn.close(), which may itself raise, then the finally clause
Discard(g, site) ==
  /\ status' = [status EXCEPT ![gconn[g]] = IF site = "closeFull" THEN "closedFull" ELSE "closedDead"]
  /\ txn' = [txn EXCEPT ![gconn[g]] = "none"]
  /\ \E ok \in BOOLEAN : Finally(g, ~ok /\ ExitHandler(site) = "raise")

\* the call at a site of the try body raises, before changing anything
ExitRaise(g, site) ==
  LET h == ExitHandler(site) IN
    CASE h = "probe" ->
           /\ pc' = [pc EXCEPT ![g] = AfterRollback]
           /\ UNCHANGED <<status, txn, gconn, seen, exc>>
      [] h \in {"closeDead", "closeFull"} -> Discard(g, h)
      [] OTHER ->
           /\ Finally(g, h = "raise")
           /\ UNCHANGED <<status, txn>>

\* lines 74-77, self.conn.rollback(), errors swallowed
ExitRollback(g) ==
  /\ pc[g] = "rollback"
  /\ \E ok \in BOOLEAN :
       IF ok
         THEN /\ txn' = [txn EXCEPT ![gconn[g]] = "none"]
              /\ pc' = [pc EXCEPT ![g] = AfterRollback]
              /\ UNCHANGED <<status, gconn, seen, exc>>
         ELSE ExitRaise(g, "rollback")
  /\ UNCHANGED <<poolSize, poolPing, pools, created, ckey, reachable,
                 gkey, via, leases, overlapped>>
  /\ UNCHANGED <<reentered, regvars, jobvars>>

\* lines 79-80, self.conn.ping(reconnect=False); when it raises,
\* lines 88-92 close the connection
ExitPing(g) ==
  /\ pc[g] = "rping"
  /\ \E r \in PingOutcomes(FALSE) :
       IF r = "ok"
         THEN /\ pc' = [pc EXCEPT ![g] = "put"]
              /\ UNCHANGED <<status, txn, gconn, seen, exc>>
         ELSE ExitRaise(g, "ping")
  /\ UNCHANGED <<poolSize, poolPing, pools, created, ckey, reachable,
                 gkey, via, leases, overlapped>>
  /\ UNCHANGED <<reentered, regvars, jobvars>>

\* variant: put() in place of put_nowait(), which waits for room
PutWaits_blocking(q, maxsize) == QueueFull(q, maxsize)

\* line 82: put_nowait never waits, whatever the queue holds
PutWaits(q, maxsize) == FALSE

\* lines 81-83, self._pool.put_nowait(self.conn); when the queue is full,
\* lines 84-87 close the connection
ExitPut(g) ==
  /\ pc[g] = "put"
  /\ ~PutWaits(pools[gkey[g]], poolSize)
  /\ IF QueueFull(pools[gkey[g]], poolSize)
       THEN /\ ExitRaise(g, "put")
            /\ UNCHANGED pools
       ELSE /\ pools' = [pools EXCEPT ![gkey[g]] = QueuePut(@, gconn[g])]
            /\ pc' = [pc EXCEPT ![g] = "clear"]
            /\ UNCHANGED <<status, txn, gconn, seen, exc>>
  /\ UNCHANGED <<poolSize, poolPing, created, ckey, reachable,
                 gkey, via, leases, overlapped>>
  /\ UNCHANGED <<reentered, regvars, jobvars>>

\* lines 93-94 after a successful put_nowait
ExitClear(g) ==
  /\ pc[g] = "clear"
  /\ Finally(g, FALSE)
  /\ UNCHANGED <<poolSize, poolPing, pools, created, status, txn, ckey, reachable,
                 gkey, via, leases, overlapped>>
  /\ UNCHANGED <<reentered, regvars, jobvars>>

\* ------------------------------------------------------------ environment
\* reachable is read by the factory (line 65) and by ping(reconnect=True)
\* on a dequeued connection (line 54)
ReadsReachable(g) ==
  \/ pc[g] = "create"
  \/ pc[g] = "unacquired" /\ poolPing /\ pools[gkey[g]] # <<>>

\* the server becomes unreachable or reachable again; a change matters
\* only to a guard about to read it, so it is taken just before such a read
Flip ==
  /\ \E g \in Guards : ReadsReachable(g)
  /\ reachable' = ~reachable
  /\ UNCHANGED <<poolSize, poolPing, pools, created, status, txn, ckey,
                 pc, gkey, gconn, via, exc, seen, leases, overlapped>>
  /\ UNCHANGED <<reentered, regvars, jobvars>>

Next ==
  \/ \E g \in Guards, db \in DBs : Construct(g, db)
  \/ \E g \in Guards : EnterGetHit(g)
  \/ \E g \in Guards : EnterGetEmpty(g)
  \/ \E g \in Guards : EnterCreate(g)
  \/ \E g \in Guards : Execute(g)
  \/ \E g \in Guards : Commit(g)
  \/ \E g \in Guards, e \in {"none", "domain"} : BlockEnd(g, e)
  \/ \E g \in Guards, e \in {"none", "domain"} : ExitUnentered(g, e)
  \/ \E g \in Guards : ExitRollback(g)
  \/ \E g \in Guards : ExitPing(g)
  \/ \E g \in Guards : ExitPut(g)
  \/ \E g \in Guards : ExitClear(g)
  \/ Flip

Spec == Init /\ [][Next]_vars

\* a step of the thread running guard g inside __enter__ or __exit__; the
\* dequeue of line 51 ends by a connection or by the timeout, every other
\* call returns or raises, so a thread that is scheduled takes its step
GuardStep(g) ==
  \/ EnterGetHit(g)
  \/ EnterGetEmpty(g)
  \/ EnterCreate(g)
  \/ ExitRollback(g)
  \/ ExitPing(g)
  \/ ExitPut(g)
  \/ ExitClear(g)

\* every thread inside __enter__ or __exit__ is eventually scheduled
FairSpec == Spec /\ \A g \in Guards : WF_vars(GuardStep(g))

\* -------------------------------------------- a guard object used twice
\* __enter__ is called again on a guard that is in its block (a nested
\* with on the same object) or that was released (a second with); lines
\* 49-51 test neither self.conn nor any other field of the guard
Reenter(g) ==
  /\ pc[g] \in {"block", "released"}
  /\ leases < MaxLeases
  /\ pc' = [pc EXCEPT ![g] = "unacquired"]
  /\ via' = [via EXCEPT ![g] = "none"]
  /\ reentered' = [reentered EXCEPT ![g] = TRUE]
  /\ leases' = leases + 1
  /\ UNCHANGED <<poolSize, poolPing, pools, created, status, txn, ckey, reachable,
                 gkey, gconn, exc, seen, overlapped, regvars, jobvars>>

ReuseNext ==
  \/ Next
  \/ \E g \in Guards : Reenter(g)

ReuseSpec == Init /\ [][ReuseNext]_vars

\* ------------------------------------------- _get_pool under _pools_lock
\* The steps of _get_pool one at a time, for threads that each construct a
\* guard and then use it; the I/O of __enter__ and __exit__ is one step each.
poolvars == <<poolSize, poolPing, pools, created, status, txn, ckey, reachable,
              pc, gkey, gconn, via, exc, seen, overlapped, reentered>>

\* variant: the with statement of line 34 does not wait for the holder
LockFree_always(l) == TRUE

\* line 34: Lock.__enter__ proceeds only while nobody holds the lock
LockFree(l) == l = None

\* variant: the lock is still held when __init__ goes on to line 47
LockAfterReturn_held(t) == t

\* line 37: leaving the with block by return releases the lock
LockAfterReturn(t) == None

\* the positions of lines 35-37, inside the with block of line 34
InGetPool == {"check", "create", "ret"}

\* the positions where a thread connects, pings, rolls back, closes, waits
\* on a dequeue or enqueues (lines 49-94) or runs the caller's block
DoesIO == {"enter", "block", "exit"}

\* what the steps of _get_pool leave alone
guardvars == <<rdb, rpwd, rpool, rconn, rqueues>>

\* lines 41-46 and 33: __init__ reads host, user and password, takes db,
\* and calls _get_pool, which builds the key
RegCall(t, db, pwd) ==
  /\ rpc[t] = "idle"
  /\ leases < MaxLeases
  /\ rdb' = [rdb EXCEPT ![t] = db]
  /\ rpwd' = [rpwd EXCEPT ![t] = pwd]
  /\ rpool' = [rpool EXCEPT ![t] = None]
  /\ rkey' = [rkey EXCEPT ![t] = KeyOf(Host, User, pwd, db)]
  /\ rpc' = [rpc EXCEPT ![t] = "lock"]
  /\ leases' = leases + 1
  /\ UNCHANGED <<poolvars, jobvars, lock, reg, qcount, handed, rconn, rqueues>>

\* line 34
RegAcquire(t) ==
  /\ rpc[t] = "lock"
  /\ LockFree(lock)
  /\ lock' = t
  /\ rpc' = [rpc EXCEPT ![t] = "check"]
  /\ UNCHANGED <<poolvars, jobvars, leases, rkey, reg, qcount, handed, guardvars>>

\* line 35
RegCheck(t) ==
  /\ rpc[t] = "check"
  /\ rpc' = [rpc EXCEPT ![t] = IF reg[rkey[t]] = None THEN "create" ELSE "ret"]
  /\ UNCHANGED <<poolvars, jobvars, leases, lock, rkey, reg, qcount, handed, guardvars>>

\* line 36: a new Queue object is stored under the key
RegCreate(t) ==
  /\ rpc[t] = "create"
  /\ qcount' = qcount + 1
  /\ reg' = [reg EXCEPT ![rkey[t]] = qcount + 1]
  /\ rpc' = [rpc EXCEPT ![t] = "ret"]
  /\ UNCHANGED <<poolvars, jobvars, leases, lock, rkey, handed, guardvars>>

\* line 37, then lines 46-47: the returned queue becomes self._pool
RegReturn(t) ==
  /\ rpc[t] = "ret"
  /\ handed' = [handed EXCEPT ![rkey[t]] = @ \cup {reg[rkey[t]]}]
  /\ rpool' = [rpool EXCEPT ![t] = reg[rkey[t]]]
  /\ lock' = LockAfterReturn(t)
  /\ rpc' = [rpc EXCEPT ![t] = "enter"]
  /\ UNCHANGED <<poolvars, jobvars, leases, rkey, reg, qcount, rdb, rpwd, rconn, rqueues>>

\* lines 49-68 in one step: self._pool gives its oldest connection, which
\* is kept, or closed when its probe raises; with no connection kept the
\* factory is called with the guard's own host, user, password and db,
\* and either opens a connection or raises
RegEnter(t) ==
  /\ rpc[t] = "enter"
  /\ \E hit \in BOOLEAN, up \in BOOLEAN :
       LET q == rqueues[rpool[t]] IN
         /\ hit => q # <<>>
         /\ rqueues' = [rqueues EXCEPT ![rpool[t]] = IF q = <<>> THEN q ELSE Tail(q)]
         /\ IF hit
              THEN /\ rconn' = [rconn EXCEPT ![t] = Head(q)]
                   /\ rpc' = [rpc EXCEPT ![t] = "block"]
              ELSE IF up
                THEN /\ rconn' = [rconn EXCEPT ![t] =
                                    Opened(Host, User, rpwd[t], rdb[t])]
                     /\ rpc' = [rpc EXCEPT ![t] = "block"]
                ELSE /\ rpc' = [rpc EXCEPT ![t] = "idle"]
                     /\ UNCHANGED rconn
  /\ UNCHANGED <<poolvars, jobvars, leases, lock, rkey, reg, qcount, handed, rdb, rpwd, rpool>>

\* the body of the caller's with statement
RegBlock(t) ==
  /\ rpc[t] = "block"
  /\ rpc' = [rpc EXCEPT ![t] = "exit"]
  /\ UNCHANGED <<poolvars, jobvars, leases, lock, rkey, reg, qcount, handed, guardvars>>

\* lines 70-94 in one step: self.conn is closed (its probe raised, or
\* self._pool is full) or put at the end of self._pool, and cleared
RegExit(t) ==
  /\ rpc[t] = "exit"
  /\ \E alive \in BOOLEAN :
       LET q == rqueues[rpool[t]] IN
         rqueues' = [rqueues EXCEPT ![rpool[t]] =
                       IF alive /\ ~QueueFull(q, poolSize) THEN QueuePut(q, rconn[t]) ELSE q]
  /\ rconn' = [rconn EXCEPT ![t] = NoConn]
  /\ rpc' = [rpc EXCEPT ![t] = "idle"]
  /\ UNCHANGED <<poolvars, jobvars, leases, lock, rkey, reg, qcount, handed, rdb, rpwd, rpool>>

RegNext ==
  \/ \E t \in Guards, db \in DBs, pwd \in Pwds : RegCall(t, db, pwd)
  \/ \E t \in Guards : RegAcquire(t)
  \/ \E t \in Guards : RegCheck(t)
  \/ \E t \in Guards : RegCreate(t)
  \/ \E t \in Guards : RegReturn(t)
  \/ \E t \in Guards : RegEnter(t)
  \/ \E t \in Guards : RegBlock(t)
  \/ \E t \in Guards : RegExit(t)

RegSpec == Init /\ [][RegNext]_vars

\* ------------------------------------------------------------ fetch_json
\* everything but the state of fetch_json
notfetch == <<poolvars, leases, regvars, bpc, bkind, blimit, bstart, binit, bcand,
              bcount, bprocessed, boffset, brows, bupdated, bstuck>>

\* line 92-93: the call, with max_retries given by the caller
FetchCall(m) ==
  /\ fpc = "idle"
  /\ fmax' = m
  /\ fbackoff' = 10
  /\ fattempt' = 0
  /\ fpc' = "loop"
  /\ UNCHANGED <<notfetch, fdata, fgets, fresps, fsleeps, fout, fret>>

\* line 94: the next attempt of range(1, max_retries + 1), or line 107
\* once the range is used up
FetchLoop ==
  /\ fpc = "loop"
  /\ IF fattempt < fmax
       THEN /\ fattempt' = fattempt + 1
            /\ fpc' = "get"
            /\ UNCHANGED <<fout, fret>>
       ELSE /\ fout' = "return"
            /\ fret' = EmptyDict
            /\ fpc' = "done"
            /\ UNCHANGED fattempt
  /\ UNCHANGED <<notfetch, fmax, fbackoff, fdata, fgets, fresps, fsleeps>>

\* lines 95-99: session.get raises (and nothing catches it), or answers
\* with a body that r.json() parses
FetchGet ==
  /\ fpc = "get"
  /\ fgets' = fgets + 1
  /\ \/ /\ fout' = "error"
        /\ fpc' = "done"
        /\ UNCHANGED <<fresps, fdata>>
     \/ \E b \in Bodies :
          /\ fresps' = Append(fresps, b)
          /\ fdata' = Json(b)
          /\ fpc' = "test"
          /\ UNCHANGED fout
  /\ UNCHANGED <<notfetch, fmax, fattempt, fbackoff, fsleeps, fret>>

\* lines 100-106
FetchTest ==
  /\ fpc = "test"
  /\ IF RateLimited(fdata)
       THEN IF IsLast(fattempt, fmax)
              THEN /\ fout' = "RuntimeError"
                   /\ fpc' = "done"
                   /\ UNCHANGED <<fsleeps, fbackoff, fret>>
              ELSE /\ fsleeps' = Append(fsleeps, fbackoff)
                   /\ fbackoff' = fbackoff * 2
                   /\ fpc' = "loop"
                   /\ UNCHANGED <<fout, fret>>
       ELSE /\ fout' = "return"
            /\ fret' = fdata
            /\ fpc' = "done"
            /\ UNCHANGED <<fsleeps, fbackoff>>
  /\ UNCHANGED <<notfetch, fmax, fattempt, fdata, fgets, fresps>>

FetchNext ==
  \/ \E m \in 0..MaxRetries : FetchCall(m)
  \/ FetchLoop
  \/ FetchGet
  \/ FetchTest

FetchSpec == Init /\ [][FetchNext]_vars

\* ----------------------------------------------- trans_en_to_zh.main
\* everything but the state of the batch loop
notbatch == <<poolvars, leases, regvars, fetchvars>>

\* SQL_FETCH_NAME / SQL_FETCH_DESC: the candidates in stock_id order,
\* LIMIT limit OFFSET offset
Page(cand, limit, offset) ==
  {x \in cand :
     LET before == Cardinality({y \in cand : y < x})
     IN  before >= offset /\ before < offset + limit}

\* lines 185-194 (222-225): the arguments, count_candidates, and the
\* initial processed and offset; the loop is skipped when the count is 0
BatchStart(kind, n, limit, off) ==
  /\ bpc = "idle"
  /\ bkind' = kind
  /\ blimit' = limit
  /\ bstart' = off
  /\ binit' = 1..n
  /\ bcand' = 1..n
  /\ bcount' = n
  /\ bprocessed' = 0
  /\ boffset' = off
  /\ bpc' = IF n > 0 THEN "loop" ELSE "done"
  /\ UNCHANGED <<notbatch, brows, bupdated, bstuck>>

\* lines 194-197 (225-228): the loop test, fetch_batch, and the break on
\* an empty batch
BatchFetch ==
  /\ bpc = "loop"
  /\ IF bprocessed < bcount
       THEN /\ brows' = Page(bcand, blimit, boffset)
            /\ bpc' = IF brows' = {} THEN "done" ELSE "update"
       ELSE /\ bpc' = "done"
            /\ UNCHANGED brows
  /\ UNCHANGED <<notbatch, bkind, blimit, bstart, binit, bcand, bcount,
                 bprocessed, boffset, bupdated, bstuck>>

\* lines 199-220 (230-251): the rows are translated and updated in one
\* committed executemany; a row whose translation is empty or equal to
\* the English text stays a candidate, the others leave the candidates;
\* then processed and offset advance by len(rows)
BatchUpdate ==
  /\ bpc = "update"
  /\ \E kept \in SUBSET brows :
       /\ bcand' = bcand \ (brows \ kept)
       /\ bstuck' = (bstuck \/ kept # {})
  /\ bupdated' = bupdated \cup brows
  /\ bprocessed' = bprocessed + Cardinality(brows)
  /\ boffset' = boffset + Cardinality(brows)
  /\ bpc' = "loop"
  /\ UNCHANGED <<notbatch, bkind, blimit, bstart, binit, bcount, brows>>

BatchNext ==
  \/ \E kind \in {"name", "description"}, n \in 0..MaxRows,
        limit \in 1..MaxLimit, off \in 0..1 : BatchStart(kind, n, limit, off)
  \/ BatchFetch
  \/ BatchUpdate

BatchSpec == Init /\ [][BatchNext]_vars

\* ================================================================ claims
AllEnqueued(k) == SeqElems(pools[k])

\* C1: for every key, the idle queue never holds more than the configured
\* capacity _POOL_SIZE connections
C1_IdleBounded == \A k \in DOMAIN pools : Len(pools[k]) <= poolSize

\* a release reaches put_nowait while its key's queue is at capacity
C1_Witness ==
  \E g \in Guards : pc[g] = "put" /\ Len(pools[gkey[g]]) = poolSize

\* C2 as stated: a connection is never both in an idle queue and referenced
\* by a guard whose self.conn is set, the window after put_nowait included
C2_Original == \A g \in Guards : gconn[g] # None => ~Enqueued(gconn[g])

\* C2 amended: a guard references an enqueued connection only in __exit__
\* between a successful put_nowait and the finally clause; a guard in its
\* block, or earlier in __exit__, never references an enqueued connection
C2_OnlyInWindow ==
  \A g \in Guards : (gconn[g] # None /\ Enqueued(gconn[g])) => pc[g] = "clear"

\* two leases on one key: one in its block, the other inside the window
C2_Witness ==
  \E g, h \in Guards :
    /\ g # h /\ gkey[g] = gkey[h]
    /\ pc[g] = "block" /\ gconn[g] # None
    /\ pc[h] = "clear" /\ Enqueued(gconn[h])

\* C3: two guards in their blocks hold distinct connections, no connection
\* is twice in a queue, and no connection is in two queues
C3_Exclusive ==
  /\ \A g, h \in Guards :
       (g # h /\ pc[g] = "block" /\ pc[h] = "block") => gconn[g] # gconn[h]
  /\ \A k \in DOMAIN pools : Cardinality(AllEnqueued(k)) = Len(pools[k])
  /\ \A k1, k2 \in DOMAIN pools :
       k1 # k2 => AllEnqueued(k1) \cap AllEnqueued(k2) = {}

\* two guards of one key are in their blocks together, each with a connection
C3_Witness ==
  \E g, h \in Guards :
    /\ g # h /\ gkey[g] = gkey[h]
    /\ pc[g] = "block" /\ pc[h] = "block"
    /\ gconn[g] # None /\ gconn[h] # None

InExit == {"rollback", "rping", "put", "clear"}

\* C4: whenever __exit__ finishes, what the caller observes is exactly what
\* the block raised: nothing if it completed, its own error if it failed,
\* never an error of rollback, probe, enqueue or close
C4_ExitTransparent ==
  [][\A g \in Guards :
       (pc[g] \in InExit /\ pc'[g] = "released") => seen'[g] = exc[g]]_vars

\* a failed block whose release discarded the connection has finished
C4_Witness ==
  \E g \in Guards :
    /\ pc[g] = "released" /\ seen[g] = "domain"
    /\ \E c \in Created : status[c] # "open" /\ ckey[c] = gkey[g]

\* C5: a release after a failed block enqueues the connection only with
\* its transaction rolled back (otherwise the connection is discarded)
C5_RolledBackOrDiscarded ==
  [][\A g \in Guards :
       (pc[g] = "put" /\ exc[g] # "none" /\ pc'[g] = "clear")
         => txn[gconn[g]] = "none"]_vars

\* C6: a connection that acquire takes from the idle queue and hands out
\* carries no open transaction
C6_NoStaleTxn ==
  [][\A g \in Guards :
       (pc[g] = "unacquired" /\ pc'[g] = "block" /\ via'[g] = "hit")
         => txn'[gconn'[g]] = "none"]_vars

\* C7: a closed connection is in no idle queue and is held by no guard
\* in its block
C7_NoResurrection ==
  /\ \A k \in DOMAIN pools : \A c \in AllEnqueued(k) : status[c] = "open"
  /\ \A g \in Guards : pc[g] = "block" => status[gconn[g]] = "open"

\* an acquire has completed on a key one of whose connections was discarded
C7_Witness ==
  \E g \in Guards :
    /\ pc[g] = "block"
    /\ \E c \in Created : status[c] # "open" /\ ckey[c] = gkey[g]

\* C8: capacity 1, two leases one after the other on one key, no probe
\* having raised on the first connection: the second lease holds the first
\* connection and the factory was called once
C8_SequentialReuse ==
  \A g \in Guards :
    ( /\ poolSize = 1 /\ leases = 2 /\ ~overlapped
      /\ pc[g] = "block"
      /\ created >= 1 /\ status[1] # "closedDead" /\ ckey[1] = gkey[g] )
    => (gconn[g] = 1 /\ created = 1)

\* the second of two sequential leases got its connection from the queue
C8_Witness ==
  \E g \in Guards :
    /\ poolSize = 1 /\ leases = 2 /\ ~overlapped
    /\ pc[g] = "block" /\ via[g] = "hit" /\ created = 1

\* C9: a dequeue that times out on an empty queue raises nothing and goes
\* to the factory, and with the factory reachable the guard then enters
\* its block holding a connection created in that step
C9_EmptyQueueCreates ==
  [][\A g \in Guards :
       /\ (pc[g] = "unacquired" /\ pools[gkey[g]] = <<>> /\ pc'[g] # pc[g])
            => (pc'[g] = "create" /\ seen'[g] = seen[g])
       /\ (pc[g] = "create" /\ via[g] = "timeout" /\ reachable /\ pc'[g] # pc[g])
            => /\ pc'[g] = "block"
               /\ gconn'[g] = created + 1 /\ created' = created + 1
               /\ status'[gconn'[g]] = "open"]_vars

\* a guard is in its block with a connection made after a timed-out dequeue
C9_Witness ==
  \E g \in Guards : pc[g] = "block" /\ via[g] = "timeout" /\ gconn[g] # None

\* C10: the factory failing after a timed-out dequeue ends __enter__ with
\* the factory's error, no connection in the guard and the queues as they
\* were; __enter__ fails at no other place
C10_FactoryFailureSurfaces ==
  [][\A g \in Guards :
       /\ (pc[g] = "create" /\ via[g] = "timeout" /\ ~reachable /\ pc'[g] # pc[g])
            => /\ pc'[g] = "enterFailed" /\ seen'[g] = "connect"
               /\ gconn'[g] = None /\ pools' = pools
       /\ (pc'[g] = "enterFailed" /\ pc[g] # "enterFailed")
            => pc[g] = "create"]_vars

\* an acquire has failed on an empty queue with the factory unreachable
C10_Witness ==
  \E g \in Guards :
    pc[g] = "enterFailed" /\ via[g] = "timeout" /\ seen[g] = "connect"

\* C11: whatever the interleaving of _get_pool calls, one Queue object is
\* created per registered key, every caller of a key is handed the object
\* the registry holds for it, and no second object is ever handed out
C11_OneQueuePerKey ==
  /\ qcount = Cardinality({k \in Keys : reg[k] # None})
  /\ \A k \in Keys : handed[k] \subseteq {reg[k]} \ {None}

\* one thread is about to create the queue of a key while another thread
\* waits at the lock with the same key
C11_Witness ==
  \E t, u \in Guards :
    /\ t # u
    /\ rkey[t] = rkey[u]
    /\ rpc[t] = "create"
    /\ rpc[u] = "lock"

\* C12: a guard on which __enter__ has been called before (it is in its
\* block, or it was released) never obtains another connection and never
\* reaches RELEASED a second time
C12_NoSecondLease ==
  [][\A g \in Guards :
       reentered[g] =>
         /\ ~(pc[g] \in {"unacquired", "create"} /\ pc'[g] = "block"
                /\ gconn'[g] # gconn[g])
         /\ ~(pc[g] # "released" /\ pc'[g] = "released")]_vars

\* C13: under fair scheduling every acquire ends in the block or in an
\* error raised to the caller, and every release that has started ends
\* RELEASED with self.conn cleared
C13_Progress ==
  \A g \in Guards :
    /\ (pc[g] \in {"unacquired", "create"}) ~> (pc[g] \in {"block", "enterFailed"})
    /\ (pc[g] \in InExit) ~> (pc[g] = "released" /\ gconn[g] = None)

\* a guard has been released while another guard is about to enqueue into
\* a queue that is full
C13_Witness ==
  \E g, h \in Guards :
    /\ g # h
    /\ pc[g] = "released"
    /\ gconn[g] = None
    /\ pc[h] = "put"
    /\ QueueFull(pools[gkey[h]], poolSize)

\* the queue slots that hold connection c
Slots(c) ==
  {s \in UNION {{<<k, i>> : i \in 1..Len(pools[k])} : k \in DOMAIN pools} :
     pools[s[1]][s[2]] = c}

\* the guards whose self.conn is c and that have not enqueued it
Holders(c) == {g \in Guards : gconn[g] = c /\ pc[g] # "clear"}

\* C14: every open connection is in one slot of one idle queue or is the
\* self.conn of one guard, never both and never neither; and when no guard
\* is inside __enter__, its block or __exit__, every connection ever created
\* is idle in the queue of its key or closed
C14_NoLeak ==
  /\ \A c \in Created :
       status[c] = "open" => Cardinality(Slots(c)) + Cardinality(Holders(c)) = 1
  /\ (\A g \in Guards : pc[g] \in {"new", "released", "enterFailed"}) =>
       \A c \in Created :
         status[c] = "open" => c \in SeqElems(pools[ckey[c]])

\* C15: with _POOL_PING on, a connection that __enter__ takes from the
\* queue and hands to the caller is the dequeued one, open, its probe not
\* having raised; a dequeued connection whose probe raises is closed, is
\* not made self.conn, and the factory is called in its place; the caller
\* then gets a new connection or the factory's error, never the probe's
C15_ProbedOnAcquire ==
  [][poolPing =>
       \A g \in Guards :
         /\ (pc[g] = "unacquired" /\ pc'[g] = "block") =>
              /\ via'[g] = "hit"
              /\ gconn'[g] = QueueHead(pools[gkey[g]])
              /\ status'[gconn'[g]] = "open"
         /\ (pc[g] = "unacquired" /\ via'[g] = "badping") =>
              /\ status'[QueueHead(pools[gkey[g]])] = "closedDead"
              /\ \A k \in DOMAIN pools' :
                   QueueHead(pools[gkey[g]]) \notin SeqElems(pools'[k])
              /\ gconn'[g] = None
              /\ pc'[g] = "create"
              /\ seen'[g] = "none"
         /\ (pc[g] = "create" /\ via[g] = "badping" /\ pc'[g] # "create") =>
              \/ /\ pc'[g] = "block"
                 /\ gconn'[g] = created + 1
                 /\ status'[gconn'[g]] = "open"
                 /\ seen'[g] = "none"
              \/ /\ pc'[g] = "enterFailed"
                 /\ seen'[g] = "connect"]_vars

\* with _POOL_PING on, a guard is in its block with a new connection made
\* after the probe of the dequeued one raised
C15_Witness ==
  \E g \in Guards :
    /\ poolPing
    /\ pc[g] = "block"
    /\ via[g] = "badping"
    /\ \E c \in Created : status[c] = "closedDead" /\ ckey[c] = gkey[g]

\* the guards of key k that are in their block
Acquired(k) == {g \in Guards : pc[g] = "block" /\ gkey[g] = k}

\* C16: the capacity bounds the idle queue only: whenever the factory
\* can reach the server, an acquire that found no usable idle connection
\* gets a new open connection, however many connections of the key are
\* open and however many leases of the key are ACQUIRED
C16_AcquireNotCapped ==
  [][\A g \in Guards :
       (pc[g] = "create" /\ reachable /\ pc'[g] # "create") =>
         /\ pc'[g] = "block"
         /\ gconn'[g] \notin Created
         /\ status'[gconn'[g]] = "open"
         /\ OpenOf(gkey[g])' = OpenOf(gkey[g]) \cup {gconn'[g]}]_vars

\* more leases of one key are ACQUIRED than the capacity, each with an
\* open connection of its own
C16_Witness ==
  \E k \in Keys :
    /\ Cardinality(Acquired(k)) > poolSize
    /\ \A g \in Acquired(k) : status[gconn[g]] = "open"
    /\ \A g, h \in Acquired(k) : g # h => gconn[g] # gconn[h]

\* C17: in one release the rollback is attempted exactly when the block
\* raised, and only as the first call; the probe comes after it and the
\* enqueue attempt after both; a release whose block ended normally issues
\* no rollback and leaves the connection's transaction as the block left it
C17_ReleaseOrder ==
  [][\A g \in Guards :
       /\ (pc[g] = "block" /\ pc'[g] \in InExit) =>
            /\ (pc'[g] = "rollback") <=> (exc'[g] # "none")
            /\ txn'[gconn[g]] = txn[gconn[g]]
       /\ (pc'[g] = "rollback" /\ pc[g] # "rollback") => pc[g] = "block"
       /\ (pc'[g] = "rping" /\ pc[g] # "rping") => pc[g] \in {"block", "rollback"}
       /\ (pc'[g] = "put" /\ pc[g] # "put") => pc[g] \in {"block", "rollback", "rping"}
       /\ (pc[g] \in {"rping", "put"} /\ exc[g] = "none" /\ status'[gconn[g]] = "open") =>
            txn'[gconn[g]] = txn[gconn[g]]]_vars

\* a release whose block raised has passed the rollback and the probe and
\* is at the enqueue, while a release whose block ended normally with its
\* transaction active is at the enqueue too
C17_Witness ==
  \E g, h \in Guards :
    /\ poolPing
    /\ pc[g] = "put" /\ exc[g] = "domain"
    /\ pc[h] = "put" /\ exc[h] = "none" /\ txn[gconn[h]] = "active"

\* a step that makes some idle queue longer
Enqueues == \E k \in DOMAIN pools : Len(pools'[k]) > Len(pools[k])

\* what a release does at its probe and at its enqueue: a probe that
\* raises ends the release with the connection closed and in no queue, a
\* probe that passes has not reconnected, and only the enqueue step of a
\* release makes a queue longer
ProbeAndEnqueue(g) ==
  /\ (pc[g] = "rping" /\ pc'[g] = "released") =>
       /\ status'[gconn[g]] = "closedDead"
       /\ \A k \in DOMAIN pools' : gconn[g] \notin SeqElems(pools'[k])
  /\ (pc[g] = "rping" /\ pc'[g] = "put") =>
       /\ txn'[gconn[g]] = txn[gconn[g]]
       /\ created' = created
  /\ (pc'[g] = "clear" /\ pc[g] # "clear") => pc[g] = "put"

\* C18 as stated, for both settings of _POOL_PING: every release reaches
\* its enqueue attempt only from a release-time probe that passed, so no
\* connection enters a queue unprobed
C18_Original ==
  [][/\ \A g \in Guards :
          /\ ProbeAndEnqueue(g)
          /\ (pc'[g] = "put" /\ pc[g] # "put") => pc[g] = "rping"
     /\ Enqueues => \E g \in Guards : pc[g] = "put" /\ pc'[g] = "clear"]_vars

\* C18 amended: with _POOL_PING on, every release reaches its enqueue
\* attempt only from a probe without reconnect that passed, and a
\* connection whose probe raises is closed and not enqueued; with
\* _POOL_PING off, no release probes and the enqueue is attempted directly
C18_ProbedWhenEnabled ==
  [][/\ \A g \in Guards :
          /\ ProbeAndEnqueue(g)
          /\ poolPing => ((pc'[g] = "put" /\ pc[g] # "put") => pc[g] = "rping")
          /\ ~poolPing => pc'[g] # "rping"
     /\ Enqueues => \E g \in Guards : pc[g] = "put" /\ pc'[g] = "clear"]_vars

\* with _POOL_PING on, one release has enqueued its connection and another
\* release of the same key ended at a probe that raised
C18_Witness ==
  \E g \in Guards, c \in Created :
    /\ poolPing
    /\ pc[g] = "clear"
    /\ Enqueued(gconn[g])
    /\ status[c] = "closedDead"
    /\ ckey[c] = gkey[g]

\* C19: the enqueue attempt of a release, for a connection c of key k: if
\* the queue of k holds fewer than _POOL_SIZE connections, c is appended
\* at its end and stays open; if it holds _POOL_SIZE, c is closed and the
\* queue is unchanged; the queues of all other keys are unchanged
C19_EnqueueEffect ==
  [][\A g \in Guards :
       (pc[g] = "put" /\ pc'[g] # "put") =>
         LET k == gkey[g]
             c == gconn[g]
         IN /\ IF Len(pools[k]) < poolSize
                 THEN /\ pools'[k] = Append(pools[k], c)
                      /\ status'[c] = "open"
                 ELSE /\ pools'[k] = pools[k]
                      /\ status'[c] = "closedFull"
            /\ DOMAIN pools' = DOMAIN pools
            /\ \A j \in DOMAIN pools \ {k} : pools'[j] = pools[j]
            /\ \A d \in Created \ {c} : status'[d] = status[d]]_vars

\* a release found the queue of its key full and closed its connection,
\* the queue still holding _POOL_SIZE other connections
C19_Witness ==
  \E c \in Created :
    /\ status[c] = "closedFull"
    /\ Len(pools[ckey[c]]) = poolSize
    /\ c \notin SeqElems(pools[ckey[c]])

\* C20: _pools_lock is held only by a thread at lines 35-37 of _get_pool:
\* a thread that is inside __enter__, its block or __exit__ does not
\* hold it, so a thread waiting at line 34 gets the lock whenever the other
\* threads are idle or busy with connections, whatever their keys
C20_LockOnlyInLookup ==
  /\ \A t \in Guards : lock = t => rpc[t] \in InGetPool
  /\ \A t \in Guards :
       (rpc[t] = "lock" /\ \A u \in Guards \ {t} : rpc[u] \in DoesIO \cup {"idle"}) =>
         ENABLED RegAcquire(t)

\* a thread is inside __enter__ for one key while another thread holds the
\* lock in _get_pool for another key
C20_Witness ==
  \E t, u \in Guards :
    /\ rpc[t] = "enter"
    /\ rkey[t] # rkey[u]
    /\ lock = u
    /\ rpc[u] \in InGetPool

\* the threads whose guard has its queue
Resolved == {t \in Guards : rpool[t] # None}

\* C21: two guards with the same host, user and db have the same queue
\* whatever their passwords, two guards that differ in db have different
\* queues, and a connection opened for a target is only ever idle in the
\* queue registered for that target and only ever held by a guard of it
C21_Partitioned ==
  /\ \A t, u \in Resolved : (rdb[t] = rdb[u]) <=> (rpool[t] = rpool[u])
  /\ \A t \in Resolved :
       \A c \in SeqElems(rqueues[rpool[t]]) :
         c.host = Host /\ c.user = User /\ c.db = rdb[t]
  /\ \A t \in Guards : rconn[t] # NoConn => rconn[t].db = rdb[t]

\* two guards of one target with different passwords have the same queue,
\* and one of them holds a connection opened with the other's password
C21_Witness ==
  \E t, u \in Resolved :
    /\ rdb[t] = rdb[u]
    /\ rpwd[t] # rpwd[u]
    /\ rpool[t] = rpool[u]
    /\ rconn[t] # NoConn
    /\ rconn[t].pwd = rpwd[u]

\* C22: a step by which __enter__ raises is a failed factory call, made
\* after a dequeue timeout or after the probe of a dequeued connection
\* raised; it leaves self.conn None and changes no queue and no connection;
\* the connection dequeued in that call was closed, and left out of every
\* queue, by the step that dequeued it; a later __exit__ on the guard
\* ends at line 71 and changes nothing
C22_FailedEnterIsClean ==
  [][\A g \in Guards :
       /\ (pc'[g] = "enterFailed" /\ pc[g] # "enterFailed") =>
            /\ pc[g] = "create"
            /\ via[g] \in {"timeout", "badping"}
            /\ gconn[g] = None /\ gconn'[g] = None
            /\ seen'[g] = "connect"
            /\ UNCHANGED <<pools, status, txn, created>>
       /\ (pc[g] = "unacquired" /\ pc'[g] = "create" /\ pools[gkey[g]] # <<>>) =>
            /\ via'[g] = "badping"
            /\ status'[QueueHead(pools[gkey[g]])] = "closedDead"
            /\ \A k \in DOMAIN pools' :
                 QueueHead(pools[gkey[g]]) \notin SeqElems(pools'[k])
       /\ (pc[g] = "enterFailed" /\ pc'[g] \notin {"enterFailed", "unacquired"}) =>
            /\ pc'[g] = "released"
            /\ UNCHANGED <<pools, status, txn, created, ckey, gconn, seen>>]_vars

\* __exit__ has been called on a guard whose __enter__ raised after the
\* probe of the dequeued connection raised; that connection is closed
C22_Witness ==
  \E g \in Guards :
    /\ pc[g] = "released"
    /\ seen[g] = "connect"
    /\ via[g] = "badping"
    /\ gconn[g] = None
    /\ \E c \in Created : status[c] = "closedDead" /\ ckey[c] = gkey[g] /\ ~Enqueued(c)

\* a response body that is a rate-limit notice: a JSON dict that has the
\* key "Note" or the key "Information"
Notice(body) == body \in {"note", "info"}

\* 10, 20, 40, ...
RECURSIVE Doubling(_)
Doubling(i) == IF i = 1 THEN 10 ELSE 2 * Doubling(i - 1)

\* C23: for max_retries >= 1, fetch_json makes at most max_retries
\* requests; every response before the latest one was a rate-limit notice;
\* it returns exactly when the latest response is not a notice, and then
\* returns what that response parsed to; it raises RuntimeError exactly
\* when it has max_retries responses, all notices; the sleeps are 10, 20,
\* 40, ..., one after each notice but the last attempt's
C23_FetchRetries ==
  fmax >= 1 =>
    /\ fgets <= fmax
    /\ Len(fresps) <= fgets
    /\ \A i \in 1..(Len(fresps) - 1) : Notice(fresps[i])
    /\ (fout = "return") <=>
         (fpc = "done" /\ Len(fresps) = fgets /\ ~Notice(fresps[Len(fresps)]))
    /\ fout = "return" => fret = Json(fresps[Len(fresps)])
    /\ (fout = "RuntimeError") <=>
         (fpc = "done" /\ Len(fresps) = fmax /\ \A i \in 1..fmax : Notice(fresps[i]))
    /\ \A i \in 1..Len(fsleeps) : fsleeps[i] = Doubling(i)
    /\ Len(fsleeps) <= Len(fresps)
    /\ Len(fsleeps) < fmax
    /\ fpc \in {"get", "done"} => Len(fsleeps) = fgets - (IF fpc = "get" THEN 0 ELSE 1)

\* the call has slept 10 and then 20 and has returned its third response
C23_Witness ==
  /\ fout = "return"
  /\ fsleeps = <<10, 20>>
  /\ Len(fresps) = 3
  /\ fmax = 3

\* C24: run with offset 0 and without --dry-run, when every update has
\* removed its row from the candidates, the loop ends with every row that
\* was a candidate at the count updated
C24_AllCandidatesUpdated ==
  (bpc = "done" /\ bstart = 0 /\ ~bstuck) => bupdated = binit

====
